---- MODULE Spec2Model ----
(***************************************************************************)
(* State-machine model of the e-commerce warehouse dashboard (src/main.py): *)
(* the report runner AnalysisFrame.run_query, the forecaster                *)
(* AIFrame.run_prediction, the theme propagation between the two frames     *)
(* and the warehouse file they read.                                        *)
(*                                                                          *)
(* Strings are Python strings; sequences are 1-based here and 0-based in    *)
(* the source, so positions kept in the state are the source's 0-based      *)
(* positions and element i of the source is element i + 1 of a sequence.    *)
(***************************************************************************)
EXTENDS Integers, Sequences, FiniteSets, TLC

VARIABLES
    phase,            \* "constructed": frames built, theme set-up pending; "running": mainloop
    shown,            \* the frame raised last by show_frame ("none" before the first call)
    current_mode,     \* AnalysisFrame.current_mode
    light_colors,     \* AnalysisFrame.light_colors (EmptyDict when unset)
    dark_colors,      \* AnalysisFrame.dark_colors
    canvas,           \* AnalysisFrame.canvas is not None
    ax,               \* AnalysisFrame.ax: what the report axes hold
    status,           \* text of AnalysisFrame.status
    current_ai_mode,  \* AIFrame.current_ai_mode
    ai_light_colors,  \* AIFrame.ai_light_colors
    ai_dark_colors,   \* AIFrame.ai_dark_colors
    canvas_ai,        \* AIFrame.canvas_ai is not None
    ax_ai,            \* AIFrame.ax_ai: what the forecast axes hold
    status_ai,        \* text of AIFrame.status_ai
    dbFile,           \* the file at DB_PATH: "absent", "unopenable", "empty", "warehouse"
    openConns,        \* sqlite3 connections opened and not closed
    lastRun,          \* the store calls and the exit path of the last handler run
    probe             \* input and result of a pure function checked on its own

vars == <<phase, shown, current_mode, light_colors, dark_colors, canvas, ax, status,
          current_ai_mode, ai_light_colors, ai_dark_colors, canvas_ai, ax_ai, status_ai,
          dbFile, openConns, lastRun, probe>>

analysisVars == <<current_mode, light_colors, dark_colors, canvas, ax, status>>
aiVars == <<current_ai_mode, ai_light_colors, ai_dark_colors, canvas_ai, ax_ai, status_ai>>
storeVars == <<dbFile, openConns>>

-----------------------------------------------------------------------------
(* Bounds of the model *)

MaxCats == 3      \* rows of a category report (pie, bar)
MaxY == 1         \* largest y value of a category report row
MaxLine == 25     \* rows of the monthly report when it is charted
MaxHist == 4      \* rows of the monthly report when it is forecast
MaxOpen == 1      \* connections left open before a further run is not explored

-----------------------------------------------------------------------------
(* Python helpers *)

\* `p in s` on Python strings
Contains(s, p) ==
    \E i \in 1..(Len(s) - Len(p) + 1) : SubSeq(s, i, i + Len(p) - 1) = p

Max2(a, b) == IF a >= b THEN a ELSE b

\* range(start, stop, step) as a sequence, step > 0
RECURSIVE Range(_, _, _)
Range(start, stop, step) ==
    IF start >= stop THEN <<>> ELSE <<start>> \o Range(start + step, stop, step)

\* lst[step-1::step]: the thinning that starts at the step-th element
StrideFromStep(lst, step) == [k \in 1..(Len(lst) \div step) |-> lst[k * step]]

\* lst[::step] for a list, step > 0
RECURSIVE Stride(_, _)
Stride(lst, step) ==
    IF Len(lst) = 0 THEN <<>>
    ELSE <<Head(lst)>> \o (IF Len(lst) <= step THEN <<>>
                           ELSE Stride(SubSeq(lst, step + 1, Len(lst)), step))

RECURSIVE SumSeq(_)
SumSeq(s) == IF Len(s) = 0 THEN 0 ELSE Head(s) + SumSeq(Tail(s))

\* The element of a singleton set: The({e(v) : v \in {x}}) evaluates x once
The(S) == CHOOSE r \in S : TRUE

-----------------------------------------------------------------------------
(* The query catalog *)

QueryNames == <<"Monthly Revenue", "Top 10 Categories by Revenue",
                "Orders Count by State", "Payment Type Distribution">>

QUERIES == {QueryNames[i] : i \in 1..Len(QueryNames)}

-----------------------------------------------------------------------------
(* The chart archetype of a report name: the if / elif / else of run_query *)

\* The dispatch with the bar test ahead of the pie test
ArchetypeBarFirst(name) ==
    IF Contains(name, "Categories") \/ Contains(name, "State") THEN "bar"
    ELSE IF Contains(name, "Distribution") THEN "pie"
    ELSE "line"

Archetype(name) ==
    IF Contains(name, "Distribution") THEN "pie"
    ELSE IF Contains(name, "Categories") \/ Contains(name, "State") THEN "bar"
    ELSE "line"

-----------------------------------------------------------------------------
(* Themes *)

Modes == {"light", "dark"}

EmptyDict == [k \in {} |-> ""]

LightColors ==
    [bg |-> "#f0f0f0", fg |-> "#000000", widget_bg |-> "#ffffff", button_bg |-> "#e0e0e0",
     button_fg |-> "#000000", accent |-> "#0078D7", plot_bg |-> "#ffffff"]

DarkColors ==
    [bg |-> "#2e2e2e", fg |-> "#ffffff", widget_bg |-> "#3c3c3c", button_bg |-> "#444444",
     button_fg |-> "#ffffff", accent |-> "#4db8ff", plot_bg |-> "#383838",
     spin_bg |-> "#3c3c3c", spin_fg |-> "#ffffff", spin_btn_bg |-> "#555555"]

\* d.get(k, default)
DictGet(d, k, default) == IF k \in DOMAIN d THEN d[k] ELSE default

\* truth value of a dict
NonEmpty(d) == DOMAIN d # {}

\* light if mode == 'light' else dark
Pick(mode, light, dark) == IF mode = "light" THEN light ELSE dark

-----------------------------------------------------------------------------
(* The report axes (AnalysisFrame.ax) *)

\* plt.subplots(): fresh axes
BlankAxes ==
    [artists |-> "none", text |-> "", aspect |-> "auto", grid |-> "off",
     x |-> <<>>, y |-> <<>>, explode |-> <<>>, xticks |-> <<>>, xticklabels |-> <<>>,
     title |-> "", ylabel |-> "", cmap |-> "", line_color |-> "", edge_color |-> "",
     text_color |-> "", facecolor |-> "default", figface |-> "default", fg |-> "default"]

NoAxes == [artists |-> "absent"]

\* ax.clear() keeps the aspect mode (hence the explicit reset that follows it in the
\* source), the face colours set with set_facecolor; it drops artists, texts, ticks,
\* labels, grid and puts the tick colours back to the defaults
ClearedAxes(a) ==
    [BlankAxes EXCEPT !.aspect = a.aspect, !.facecolor = a.facecolor,
                      !.figface = a.figface]

\* _apply_theme_to_plot, for the colours dict chosen by the mode
Themed(a, colors) ==
    [a EXCEPT !.figface = colors.bg,
              !.facecolor = DictGet(colors, "plot_bg", colors.widget_bg),
              !.fg = colors.fg]

ApplyThemeToPlot(hasCanvas, a, mode, light, dark) ==
    IF ~hasCanvas THEN a ELSE Themed(a, Pick(mode, light, dark))

\* _setup_plot_canvas_if_needed: <<canvas, ax>> after the call
SetupPlotCanvasIfNeeded(hasCanvas, a, mode, light, dark) ==
    IF hasCanvas THEN <<hasCanvas, a>>
    ELSE IF NonEmpty(light) /\ NonEmpty(dark)
         THEN <<TRUE, ApplyThemeToPlot(TRUE, BlankAxes, mode, light, dark)>>
         ELSE <<TRUE, BlankAxes>>

-----------------------------------------------------------------------------
(* The forecast axes (AIFrame.ax_ai) and the AI frame's theme *)

BlankAiAxes ==
    [artists |-> "none", text |-> "", aspect |-> "auto", grid |-> "off",
     hist_idx |-> <<>>, hist_y |-> <<>>, fit_idx |-> <<>>, fit_y |-> <<>>,
     pred_idx |-> <<>>, pred_y |-> <<>>, xticks |-> <<>>, xticklabels |-> <<>>,
     title |-> "", xlabel |-> "", ylabel |-> "", legend |-> FALSE,
     hist_color |-> "", text_color |-> "",
     facecolor |-> "default", figface |-> "default", fg |-> "default"]

ClearedAiAxes(a) ==
    [BlankAiAxes EXCEPT !.aspect = a.aspect, !.facecolor = a.facecolor,
                        !.figface = a.figface]

\* The AI frame's fields as one record
AiFrame ==
    [mode |-> current_ai_mode, light |-> ai_light_colors, dark |-> ai_dark_colors,
     canvas |-> canvas_ai, ax |-> ax_ai]

\* _apply_theme_to_ai_plot
ApplyThemeToAiPlot(f, mode, light, dark) ==
    IF ~f.canvas THEN f
    ELSE [f EXCEPT !.ax = Themed(f.ax, Pick(mode, light, dark))]

\* _ensure_canvas_and_apply_theme (ai_chart_frame_container is set by __init__)
EnsureCanvasAndApplyTheme(f, mode, light, dark) ==
    ApplyThemeToAiPlot(IF ~f.canvas THEN [f EXCEPT !.canvas = TRUE, !.ax = BlankAiAxes]
                       ELSE f,
                       mode, light, dark)

\* set_mode_ai
SetModeAi(f, mode, light, dark, from_init) ==
    IF mode \notin Modes THEN f
    ELSE LET g == [f EXCEPT !.mode = mode, !.light = light, !.dark = dark]
         IN  IF g.canvas THEN ApplyThemeToAiPlot(g, mode, g.light, g.dark)
             ELSE IF ~from_init THEN EnsureCanvasAndApplyTheme(g, mode, g.light, g.dark)
             ELSE g

\* _init_theme_settings
InitThemeSettings(f, mode, light, dark) ==
    SetModeAi([f EXCEPT !.light = light, !.dark = dark], mode, light, dark, TRUE)

\* The analysis frame's fields as one record
AnFrame ==
    [mode |-> current_mode, light |-> light_colors, dark |-> dark_colors,
     canvas |-> canvas, ax |-> ax]

\* set_mode: <<analysis frame, AI frame>> after the call, the propagation to the
\* AI frame included
SetMode(an, ai, mode) ==
    IF mode \notin Modes THEN <<an, ai>>
    ELSE LET cv == SetupPlotCanvasIfNeeded(an.canvas, an.ax, mode, an.light, an.dark)
             an2 == [an EXCEPT !.mode = mode, !.canvas = cv[1],
                               !.ax = ApplyThemeToPlot(cv[1], cv[2], mode, an.light, an.dark)]
         IN  <<an2, SetModeAi(ai, mode, an.light, an.dark, FALSE)>>

\* _create_styles_and_apply_default_theme
CreateStylesAndApplyDefaultTheme(an, ai) ==
    SetMode([an EXCEPT !.light = LightColors, !.dark = DarkColors], ai, an.mode)

\* get_current_theme_settings: the frames after the call (it defines the colours
\* when they are still empty) and the <<mode, light, dark>> it returns
ThemeSettingsFrames(an, ai) ==
    IF ~NonEmpty(an.light) \/ ~NonEmpty(an.dark)
    THEN CreateStylesAndApplyDefaultTheme(an, ai) ELSE <<an, ai>>

\* show_frame: <<analysis frame, AI frame>> after the call
ShowFrameFrames(an, ai, name) ==
    LET fr == ThemeSettingsFrames(an, ai)
        mode == fr[1].mode
    IN  IF name = "AnalysisFrame" THEN SetMode(fr[1], fr[2], mode)
        ELSE IF name = "AIFrame"
             THEN <<fr[1], SetModeAi(fr[2], mode, fr[1].light, fr[1].dark, FALSE)>>
        ELSE fr

Frames == {"MenuFrame", "AnalysisFrame", "AIFrame"}

-----------------------------------------------------------------------------
(* The warehouse file and what the report queries return *)

DbStates == {"absent", "unopenable", "empty", "warehouse"}

\* '%02d' % m
Fmt02(m) == IF m < 10 THEN "0" \o ToString(m) ELSE ToString(m)

\* d.year || '-' || printf('%02d', d.month): the x of the monthly query, for the
\* k-th month (k >= 0) counted from January of FirstYear
FirstYear == 2023
MonthLabel(k) == ToString(FirstYear + (k \div 12)) \o "-" \o Fmt02((k % 12) + 1)

\* The x of row i (0-based) of a category query
CategoryLabel(name, i) ==
    (IF name = "Payment Type Distribution" THEN "payment_type_"
     ELSE IF name = "Orders Count by State" THEN "state_"
     ELSE "category_") \o ToString(i)

\* The category queries end in ORDER BY y DESC: their y column never increases
NonIncreasing(ys) == \A i \in 1..(Len(ys) - 1) : ys[i] >= ys[i + 1]

CategoryYs ==
    {ys \in UNION {[1..n -> 0..MaxY] : n \in 0..MaxCats} : NonIncreasing(ys)}

CategoryRows(name) ==
    {[i \in 1..Len(ys) |-> [x |-> CategoryLabel(name, i - 1), y |-> ys[i]]] : ys \in CategoryYs}

\* The monthly query is ordered by year and month: n rows, starting at month `first`
MonthlyRows(first, ys) ==
    [i \in 1..Len(ys) |-> [x |-> MonthLabel(first + i - 1), y |-> ys[i]]]

\* Lengths around the multiples of 12, where the tick stride changes
ChartedLengths == {n \in 0..MaxLine : n <= 2 \/ n % 12 \in {0, 1, 11}}

ChartedMonthlyRows ==
    {MonthlyRows(0, [i \in 1..n |-> i % (MaxY + 2)]) : n \in ChartedLengths}

\* The rows pd.read_sql_query can return for a catalog entry
QueryRows(name) ==
    IF name = "Monthly Revenue" THEN ChartedMonthlyRows ELSE CategoryRows(name)

ColX(rows) == [i \in 1..Len(rows) |-> rows[i].x]
ColY(rows) == [i \in 1..Len(rows) |-> rows[i].y]

\* sqlite3.connect, PRAGMA query_only, QUERIES[name], pd.read_sql_query, conn.close:
\* the exception raised ("none" when the frame is returned), the file and the open
\* connections afterwards, and the store calls that completed.
\* connect creates the file when there is none; pandas wraps the sqlite3 error of a
\* failed query in pandas.errors.DatabaseError, which is not a sqlite3.Error.
Load(db, conns, known) ==
    IF db = "unopenable"
    THEN [raised |-> "sqlite3.Error", db |-> db, conns |-> conns, events |-> <<>>]
    ELSE LET db2 == IF db = "absent" THEN "empty" ELSE db
         IN  IF ~known
             THEN [raised |-> "KeyError", db |-> db2, conns |-> conns + 1,
                   events |-> <<"connect", "pragma">>]
             ELSE IF db2 # "warehouse"
             THEN [raised |-> "DatabaseError", db |-> db2, conns |-> conns + 1,
                   events |-> <<"connect", "pragma", "query_failed">>]
             ELSE [raised |-> "none", db |-> db2, conns |-> conns,
                   events |-> <<"connect", "pragma", "query", "close">>]

-----------------------------------------------------------------------------
(* AnalysisFrame.run_query *)

\* y_data.max()
RECURSIVE MaxSeq(_)
MaxSeq(ys) == IF Len(ys) = 1 THEN ys[1] ELSE Max2(ys[1], MaxSeq(Tail(ys)))

\* The 0-based position of the last maximum
IdxMaxLast(ys) ==
    CHOOSE i \in 0..(Len(ys) - 1) :
        /\ ys[i + 1] = MaxSeq(ys)
        /\ \A j \in (i + 1)..(Len(ys) - 1) : ys[j + 1] # MaxSeq(ys)

\* y_data.idxmax() after reset_index: the 0-based position of the first maximum
IdxMax(ys) ==
    CHOOSE i \in 0..(Len(ys) - 1) :
        /\ ys[i + 1] = MaxSeq(ys)
        /\ \A j \in 0..(i - 1) : ys[j + 1] # MaxSeq(ys)

\* explode_values, in tenths of the radius (0.1 is 1)
ExplodeValues(ys) ==
    IF Len(ys) > 0 /\ MaxSeq(ys) > 0
    THEN [i \in 1..Len(ys) |-> IF i - 1 = IdxMax(ys) THEN 1 ELSE 0]
    ELSE [i \in 1..Len(ys) |-> 0]

\* The stride rounded up instead of down
TickSpacingCeiling(n) == Max2(1, (n + 11) \div 12)

\* max(1, len(x_data) // 12)
TickSpacing(n) == Max2(1, n \div 12)

\* The start of the try block up to the archetype dispatch: cleared axes
ResetAxes(a) == [ClearedAxes(a) EXCEPT !.aspect = "auto", !.grid = "off"]

\* What ax.pie does with wedge sizes that sum to 0 (the fractions are 0 / 0)
\* depends on the matplotlib build: it draws NaN wedges, or it raises, in pie
\* itself or when tight_layout measures the texts.
PieZeroOutcomes == {"drawn", "raise_in_pie", "raise_in_layout"}

\* The palette of the light mode, whatever the mode
WithPaletteLight(a, mode, n) == [a EXCEPT !.cmap = "viridis"]

\* The palette: the colormap of the mode, sampled at max(len, 2) points
WithPalette(a, mode, n) ==
    [a EXCEPT !.cmap = IF mode = "light" THEN "viridis" ELSE "plasma"]

\* The three branches of the dispatch, on cleared axes
DrawPie(a, xs, ys, mode, light, dark) ==
    [WithPalette(a, mode, Len(xs)) EXCEPT
        !.artists = "pie", !.x = xs, !.y = ys, !.explode = ExplodeValues(ys),
        !.edge_color = Pick(mode, DictGet(light, "bg", "None"), DictGet(dark, "bg", "None")),
        !.text_color = Pick(mode, DictGet(light, "fg", "None"), DictGet(dark, "fg", "None")),
        !.aspect = "equal"]

DrawBar(a, xs, ys, mode) ==
    [WithPalette(a, mode, Len(xs)) EXCEPT
        !.artists = "bar", !.x = xs, !.y = ys,
        !.xticks = Range(0, Len(xs), 1), !.xticklabels = xs, !.grid = "y"]

DrawLine(a, xs, ys, mode, light, dark) ==
    LET valid_indices == Range(0, Len(xs), TickSpacing(Len(xs)))
        b == [WithPalette(a, mode, Len(xs)) EXCEPT
                 !.artists = "line", !.x = xs, !.y = ys,
                 !.line_color = Pick(mode, DictGet(light, "accent", "None"),
                                     DictGet(dark, "accent", "None")),
                 !.grid = "both"]
    IN  IF Len(valid_indices) > 0
        THEN [b EXCEPT !.xticks = valid_indices,
                       !.xticklabels = [k \in 1..Len(valid_indices) |->
                                            xs[valid_indices[k] + 1]]]
        ELSE b

\* The "No data available." text of an empty result
DrawNoData(a, mode, light, dark) ==
    [a EXCEPT !.artists = "text", !.text = "No data available.",
              !.text_color = Pick(mode, DictGet(light, "fg", "#000000"),
                                  DictGet(dark, "fg", "#ffffff"))]

UnexpectedQueryError ==
    "An unexpected error occurred: Execution failed on sql: no such table"

\* run_query from the try block on: the axes, the status, the file, the open
\* connections and the run's record, for the selected name, the rows the query
\* returns when it succeeds and the build's treatment of an all-zero pie.
RunQueryResult(a, mode, light, dark, db, conns, name, rows, pieZero) ==
    LET ld == Load(db, conns, name \in QUERIES)
        out(a2, st, oc) ==
            [ax |-> a2, status |-> st, db |-> ld.db, conns |-> ld.conns,
             run |-> [op |-> "run_query", name |-> name, events |-> ld.events,
                      outcome |-> oc, rows |-> rows, months |-> "", degree |-> "",
                      future_labels |-> <<>>]]
        xs == ColX(rows)
        ys == ColY(rows)
        cleared == ResetAxes(a)
        finish(drawn) ==
            Themed([drawn EXCEPT !.title = name, !.ylabel = "Value"],
                   Pick(mode, light, dark))
    IN  IF ld.raised = "sqlite3.Error"
        THEN out(a, "Database error: unable to open database file", "db_error")
        ELSE IF ld.raised = "KeyError"
        THEN out(a, "Error: Report query '" \o name \o "' not found.", "not_found")
        ELSE IF ld.raised = "DatabaseError"
        THEN out(a, UnexpectedQueryError, "error")
        ELSE IF Len(rows) = 0
        THEN out(Themed(DrawNoData(cleared, mode, light, dark), Pick(mode, light, dark)),
                 "No data found for: " \o name, "empty")
        ELSE IF Archetype(name) = "pie"
        THEN LET pie == DrawPie(cleared, xs, ys, mode, light, dark)
             IN  IF SumSeq(ys) = 0 /\ pieZero = "raise_in_pie"
                 THEN out(cleared, "An unexpected error occurred: pie", "error")
                 ELSE IF SumSeq(ys) = 0 /\ pieZero = "raise_in_layout"
                 THEN out([pie EXCEPT !.title = name, !.ylabel = "Value"],
                          "An unexpected error occurred: tight_layout", "error")
                 ELSE out(finish(pie), "Successfully displayed: " \o name, "success")
        ELSE IF Archetype(name) = "bar"
        THEN out(finish(DrawBar(cleared, xs, ys, mode)),
                 "Successfully displayed: " \o name, "success")
        ELSE out(finish(DrawLine(cleared, xs, ys, mode, light, dark)),
                 "Successfully displayed: " \o name, "success")

-----------------------------------------------------------------------------
(* Polynomial regression: make_pipeline(PolynomialFeatures(degree), LinearRegression())
   fitted on the time index 0..n-1.  Ordinary least squares, computed exactly: values
   are fractions <<numerator, denominator>> in lowest terms with a positive
   denominator.  The least-squares polynomial of degree d on n equally spaced nodes
   is the sum of the projections of y on the Gram polynomials of degree 0..d, and a
   polynomial of degree d is extended from its values at the nodes 0..d by Newton's
   forward differences. *)

Abs(a) == IF a < 0 THEN -a ELSE a

RECURSIVE Gcd(_, _)
Gcd(a, b) == IF b = 0 THEN Abs(a) ELSE Gcd(b, a % b)

Lcm(a, b) == (a \div Gcd(a, b)) * b

RECURSIVE GcdSeq(_)
GcdSeq(s) == IF Len(s) = 0 THEN 0 ELSE Gcd(Head(s), GcdSeq(Tail(s)))

RECURSIVE LcmSeq(_)
LcmSeq(s) == IF Len(s) = 0 THEN 1 ELSE Lcm(Head(s), LcmSeq(Tail(s)))

Dot(a, b) == SumSeq([i \in 1..Len(a) |-> a[i] * b[i]])

DivSeq(s, c) == [i \in 1..Len(s) |-> s[i] \div c]

\* a (a - 1) ... (a - m + 1)
RECURSIVE Fall(_, _)
Fall(a, m) == IF m = 0 THEN 1 ELSE a * Fall(a - 1, m - 1)

\* The binomial coefficient C(a, m), a >= 0
RECURSIVE Binom(_, _)
Binom(a, m) == IF m = 0 THEN 1 ELSE (Binom(a, m - 1) * (a - m + 1)) \div m

\* The Gram polynomial of degree k on the nodes 0..n-1, at node i, scaled to integers
GramRaw(k, n, i) ==
    SumSeq([j1 \in 1..(k + 1) |->
              (IF (j1 - 1) % 2 = 0 THEN 1 ELSE -1) * Binom(k, j1 - 1)
              * Binom(k + j1 - 1, j1 - 1) * Fall(i, j1 - 1) * Fall(n - j1, k - j1 + 1)])

\* ... over the nodes, divided by the gcd of its values
Gram(k, n) ==
    The({DivSeq(raw, GcdSeq(raw)) : raw \in {[i \in 1..n |-> GramRaw(k, n, i - 1)]}})

\* The projection of ys on the Gram polynomial g: numerators over Dot(g, g)
Project(ys, g) == The({[i \in 1..Len(g) |-> a * g[i]] : a \in {Dot(ys, g)}})

\* The sum over k of nums[k] * (L / dens[k]), elementwise
RECURSIVE Combine(_, _, _, _)
Combine(nums, dens, L, n) ==
    IF Len(nums) = 0 THEN [i \in 1..n |-> 0]
    ELSE The({[i \in 1..n |-> h[i] * c + rest[i]] :
                 h \in {Head(nums)}, c \in {L \div Head(dens)},
                 rest \in {Combine(Tail(nums), Tail(dens), L, n)}})

Reduce(num, L) == The({<<DivSeq(num, c), L \div c>> : c \in {Gcd(L, GcdSeq(num))}})

FitOn(g, dens, ys) ==
    The({Reduce(num, LcmSeq(dens)) :
           num \in {Combine([k1 \in 1..Len(g) |-> Project(ys, g[k1])], dens,
                            LcmSeq(dens), Len(ys))}})

\* model.fit(X_hist, y_hist): the fitted polynomial at the nodes 0..n-1, as
\* <<numerators, common denominator>>; needs Len(ys) >= d + 1
FitAtNodes(d, ys) ==
    The({The({FitOn(g, dens, ys) :
                dens \in {[k1 \in 1..(d + 1) |-> Dot(g[k1], g[k1])]}}) :
         g \in {[k1 \in 1..(d + 1) |-> Gram(k1 - 1, Len(ys))]}})

\* Forward differences at 0 of a sequence
RECURSIVE Diffs(_)
Diffs(s) ==
    IF Len(s) = 0 THEN <<>>
    ELSE <<s[1]>> \o Diffs([i \in 1..(Len(s) - 1) |-> s[i + 1] - s[i]])

Frac(num, den) == The({<<num \div c, den \div c>> : c \in {Gcd(num, den)}})

\* The polynomial with forward differences dl at 0, over den, at the index x
Extend(dl, den, x) ==
    Frac(SumSeq([j1 \in 1..Len(dl) |-> Binom(x, j1 - 1) * dl[j1]]), den)

\* model.fit(X_hist, y_hist) of the pipeline of degree d: the fitted polynomial, as
\* its forward differences at 0 over a common denominator
PolynomialFit(d, ys) ==
    The({[dl |-> Diffs(SubSeq(fit[1], 1, d + 1)), den |-> fit[2]] :
         fit \in {FitAtNodes(d, ys)}})

\* The prediction with the time index counted from one
PredictFromOne(model, xs) ==
    The({[i \in 1..Len(xs) |-> Extend(dl, model.den, xs[i] + 1)] : dl \in {model.dl}})

\* model.predict at the indices xs
Predict(model, xs) ==
    The({[i \in 1..Len(xs) |-> Extend(dl, model.den, xs[i])] : dl \in {model.dl}})

-----------------------------------------------------------------------------
(* Texts: int() of a spinbox text, the YYYY-MM labels *)

Digits == <<"0", "1", "2", "3", "4", "5", "6", "7", "8", "9">>

IsDigit(c) == \E k \in 1..10 : Digits[k] = c

DigitOf(c) == (CHOOSE k \in 1..10 : Digits[k] = c) - 1

AllDigits(s) == Len(s) > 0 /\ \A i \in 1..Len(s) : IsDigit(SubSeq(s, i, i))

\* The value of a digit string
RECURSIVE Decimal(_)
Decimal(s) ==
    IF Len(s) = 0 THEN 0
    ELSE 10 * Decimal(SubSeq(s, 1, Len(s) - 1)) + DigitOf(SubSeq(s, Len(s), Len(s)))

\* int(text) for a text without blanks or underscores: [ok |-> FALSE] is ValueError
ParseInt(s) ==
    IF AllDigits(s) THEN [ok |-> TRUE, val |-> Decimal(s)]
    ELSE IF Len(s) > 1 /\ SubSeq(s, 1, 1) \in {"-", "+"} /\ AllDigits(SubSeq(s, 2, Len(s)))
    THEN [ok |-> TRUE,
          val |-> (IF SubSeq(s, 1, 1) = "-" THEN -1 ELSE 1) * Decimal(SubSeq(s, 2, Len(s)))]
    ELSE [ok |-> FALSE, val |-> 0]

\* A NULL x (the concatenation of a NULL year): None in the frame
Null == "<None>"

\* pd.to_datetime(x + "-01") for the x values of the monthly query: a NULL raises
\* TypeError on the concatenation, a text that is no YYYY-MM raises in to_datetime
ParseYearMonth(x) ==
    IF x # Null /\ Len(x) = 7 /\ SubSeq(x, 5, 5) = "-"
       /\ AllDigits(SubSeq(x, 1, 4)) /\ AllDigits(SubSeq(x, 6, 7))
       /\ Decimal(SubSeq(x, 6, 7)) \in 1..12
    THEN [ok |-> TRUE, year |-> Decimal(SubSeq(x, 1, 4)), month |-> Decimal(SubSeq(x, 6, 7))]
    ELSE [ok |-> FALSE, year |-> 0, month |-> 0]

\* strftime('%Y-%m') of the k-th month start (k >= 1) after the month (year, month)
MonthAfter(year, month, k) ==
    ToString((year * 12 + month - 1 + k) \div 12) \o "-"
        \o Fmt02(((year * 12 + month - 1 + k) % 12) + 1)

\* The label generation without its except branch
FutureLabelsNoFallback(last_date_str, h) ==
    [k \in 1..h |-> MonthAfter(ParseYearMonth(last_date_str).year,
                               ParseYearMonth(last_date_str).month, k)]

\* The try / except of the label generation
FutureLabels(last_date_str, h) ==
    IF ParseYearMonth(last_date_str).ok
    THEN [k \in 1..h |-> MonthAfter(ParseYearMonth(last_date_str).year,
                                    ParseYearMonth(last_date_str).month, k)]
    ELSE [k \in 1..h |-> "P" \o ToString(k)]

-----------------------------------------------------------------------------
(* AIFrame.run_prediction *)

\* The validation without the degree's range test
RequestStatusNoDegreeCheck(months_text, degree_text) ==
    IF ~ParseInt(months_text).ok \/ ~ParseInt(degree_text).ok THEN "Err: Invalid number."
    ELSE IF ~(1 <= ParseInt(months_text).val /\ ParseInt(months_text).val <= 36)
    THEN "Err: Months 1-36."
    ELSE ""

\* The first try block: "" when the request is accepted, the status text otherwise
RequestStatus(months_text, degree_text) ==
    IF ~ParseInt(months_text).ok \/ ~ParseInt(degree_text).ok THEN "Err: Invalid number."
    ELSE IF ~(1 <= ParseInt(months_text).val /\ ParseInt(months_text).val <= 36)
    THEN "Err: Months 1-36."
    ELSE IF ~(1 <= ParseInt(degree_text).val /\ ParseInt(degree_text).val <= 5)
    THEN "Err: Degree 1-5."
    ELSE ""

\* One point more than the source asks for
MinPointsPlusTwo(poly_degree) == poly_degree + 2

\* min_points
MinPoints(poly_degree) == poly_degree + 1

\* Future indices that start on the last historical index
FutureIdxsFromLast(last_idx, h) == Range(last_idx, last_idx + h, 1)

\* np.arange(last_idx + 1, last_idx + 1 + num_months_to_predict)
FutureIdxs(last_idx, h) == Range(last_idx + 1, last_idx + 1 + h, 1)

\* The "Not enough data." text on cleared axes
DrawNotEnough(a, mode, light, dark) ==
    [ClearedAiAxes(a) EXCEPT
        !.aspect = "auto", !.artists = "text", !.text = "Not enough data.",
        !.text_color = Pick(mode, DictGet(light, "fg", "None"), DictGet(dark, "fg", "None"))]

\* The plotting block: the three series, the thinned ticks, the texts
DrawForecast(a, colors, poly_degree, h, xs, ys, future_labels) ==
    The({[ClearedAiAxes(a) EXCEPT
            !.aspect = "auto", !.artists = "forecast",
            !.hist_idx = X_hist, !.hist_y = ys,
            !.fit_idx = X_hist, !.fit_y = Predict(model, X_hist),
            !.pred_idx = future_idxs, !.pred_y = Predict(model, future_idxs),
            !.xticks = Stride(X_hist \o future_idxs, tick_space),
            !.xticklabels = Stride(xs \o future_labels, tick_space),
            !.title = "Polynomial Revenue Forecast (Deg=" \o ToString(poly_degree)
                         \o ", " \o ToString(h) \o "mo)",
            !.xlabel = "Month (YYYY-MM)", !.ylabel = "Revenue", !.legend = TRUE,
            !.grid = "both", !.hist_color = colors.accent] :
         X_hist \in {Range(0, Len(ys), 1)},
         model \in {PolynomialFit(poly_degree, ys)},
         future_idxs \in {FutureIdxs(Len(ys) - 1, h)},
         tick_space \in {Max2(1, (Len(ys) + Len(FutureIdxs(Len(ys) - 1, h))) \div 12)}})

\* The status a failed query would leave without the handler of Exception
StillProcessing == "Processing: Deg-1 Poly Forecast (1 months)"

UnexpectedPredictionError == "Pred err: Execution failed on sql: no such table"

\* run_prediction after the canvas is ensured: the axes, the status, the file, the
\* open connections and the run's record, for the two spinbox texts and the rows
\* the monthly query returns when it succeeds
RunPredictionResult(a, mode, light, dark, db, conns, months_text, degree_text, rows) ==
    LET run(ev, oc) ==
            [op |-> "run_prediction", name |-> "Monthly Revenue", events |-> ev,
             outcome |-> oc, rows |-> rows, months |-> months_text,
             degree |-> degree_text, future_labels |-> <<>>]
    IN  IF RequestStatus(months_text, degree_text) # ""
        THEN [ax |-> a, status |-> RequestStatus(months_text, degree_text), db |-> db,
              conns |-> conns, run |-> run(<<>>, "invalid_request")]
        ELSE The({
          IF ld.raised = "sqlite3.Error"
          THEN [ax |-> a, status |-> "DB err: unable to open database file",
                db |-> ld.db, conns |-> ld.conns, run |-> run(ld.events, "db_error")]
          ELSE IF ld.raised # "none"
          THEN [ax |-> a, status |-> UnexpectedPredictionError,
                db |-> ld.db, conns |-> ld.conns, run |-> run(ld.events, "error")]
          ELSE IF Len(rows) = 0 \/ Len(rows) < MinPoints(d)
          THEN [ax |-> Themed(DrawNotEnough(a, mode, light, dark), Pick(mode, light, dark)),
                status |-> "Err: Need >= " \o ToString(MinPoints(d))
                              \o " data points for deg " \o ToString(d) \o ".",
                db |-> ld.db, conns |-> ld.conns,
                run |-> run(ld.events, "insufficient_data")]
          ELSE The({
                 [ax |-> Themed(DrawForecast(a, Pick(mode, light, dark), d, h,
                                             ColX(rows), ColY(rows), future_labels),
                                Pick(mode, light, dark)),
                  status |-> "Prediction complete.",
                  db |-> ld.db, conns |-> ld.conns,
                  run |-> [run(ld.events, "success") EXCEPT
                              !.future_labels = future_labels]] :
                 future_labels \in {FutureLabels(rows[Len(rows)].x, h)}}) :
          ld \in {Load(db, conns, TRUE)},
          h \in {ParseInt(months_text).val},
          d \in {ParseInt(degree_text).val}})

-----------------------------------------------------------------------------
(* The state after the frames are constructed (MainApplication.__init__ up to the
   theme initialisation) *)

\* lastRun: the last run's inputs (the selected name or the spinbox texts, the rows
\* the query returned), the store calls it completed, the future labels it
\* generated and how it ended
NoRun ==
    [op |-> "none", name |-> "", events |-> <<>>, outcome |-> "none", rows |-> <<>>,
     months |-> "", degree |-> "", future_labels |-> <<>>]
NoProbe == [fn |-> "none"]

InitApp ==
    /\ phase = "constructed"
    /\ shown = "none"
    /\ current_mode = "light"
    /\ light_colors = EmptyDict
    /\ dark_colors = EmptyDict
    /\ canvas = FALSE
    /\ ax = NoAxes
    /\ status = "Ready. Select a report and click Run."
    /\ current_ai_mode = "light"
    /\ ai_light_colors = EmptyDict
    /\ ai_dark_colors = EmptyDict
    /\ canvas_ai = FALSE
    /\ ax_ai = NoAxes
    /\ status_ai = "Ready."
    /\ dbFile \in DbStates
    /\ openConns = 0
    /\ lastRun = NoRun

Init == InitApp /\ probe = NoProbe

\* Assignment of the two frames' fields from <<analysis frame, AI frame>>
SetFrames(fr) ==
    /\ current_mode' = fr[1].mode
    /\ light_colors' = fr[1].light
    /\ dark_colors' = fr[1].dark
    /\ canvas' = fr[1].canvas
    /\ ax' = fr[1].ax
    /\ current_ai_mode' = fr[2].mode
    /\ ai_light_colors' = fr[2].light
    /\ ai_dark_colors' = fr[2].dark
    /\ canvas_ai' = fr[2].canvas
    /\ ax_ai' = fr[2].ax

\* MainApplication.__init__, theme initialisation and the first show_frame
Startup ==
    /\ phase = "constructed"
    /\ LET fr1 == CreateStylesAndApplyDefaultTheme(AnFrame, AiFrame)
           fr2 == <<fr1[1], InitThemeSettings(fr1[2], fr1[1].mode, fr1[1].light,
                                               fr1[1].dark)>>
       IN  \E fr \in {ShowFrameFrames(fr2[1], fr2[2], "MenuFrame")} : SetFrames(fr)
    /\ phase' = "running"
    /\ shown' = "MenuFrame"
    /\ UNCHANGED <<status, status_ai, storeVars, lastRun, probe>>

\* The menu's two buttons and the frames' "Back to Menu" button: show_frame(name)
ShowFrame(name) ==
    /\ phase = "running"
    /\ IF shown = "MenuFrame" THEN name \in {"AnalysisFrame", "AIFrame"}
       ELSE name = "MenuFrame"
    /\ \E fr \in {ShowFrameFrames(AnFrame, AiFrame, name)} : SetFrames(fr)
    /\ shown' = name
    /\ UNCHANGED <<phase, status, status_ai, storeVars, lastRun, probe>>

\* The analysis frame's Light and Dark buttons (the active mode's is disabled)
ClickTheme(mode) ==
    /\ phase = "running"
    /\ shown = "AnalysisFrame"
    /\ mode # current_mode
    /\ \E fr \in {SetMode(AnFrame, AiFrame, mode)} : SetFrames(fr)
    /\ UNCHANGED <<phase, shown, status, status_ai, storeVars, lastRun, probe>>

\* The "Run" button of the analysis frame; the combobox is read-only over QUERIES
RunQuery(name, rows, pieZero) ==
    /\ phase = "running"
    /\ shown = "AnalysisFrame"
    /\ openConns < MaxOpen
    /\ \E cv \in {SetupPlotCanvasIfNeeded(canvas, ax, current_mode, light_colors,
                                          dark_colors)} :
          /\ canvas' = cv[1]
          /\ IF name = ""
             THEN /\ ax' = cv[2]
                  /\ status' = "Please select a report."
                  /\ lastRun' = [NoRun EXCEPT !.op = "run_query",
                                                !.outcome = "no_selection"]
                  /\ UNCHANGED storeVars
             ELSE \E r \in {RunQueryResult(cv[2], current_mode, light_colors, dark_colors,
                                           dbFile, openConns, name, rows, pieZero)} :
                      /\ ax' = r.ax
                      /\ status' = r.status
                      /\ dbFile' = r.db
                      /\ openConns' = r.conns
                      /\ lastRun' = r.run
    /\ UNCHANGED <<phase, shown, current_mode, light_colors, dark_colors, aiVars, probe>>

\* The warehouse file is replaced, removed or made unreadable from outside (the ETL
\* script that builds it)
StoreChanges(db) ==
    /\ phase = "running"
    /\ db # dbFile
    /\ dbFile' = db
    /\ UNCHANGED <<phase, shown, analysisVars, aiVars, openConns, lastRun, probe>>

\* The interpreter finalises connection objects that were dropped without close()
Finalize ==
    /\ openConns > 0
    /\ openConns' = 0
    /\ UNCHANGED <<phase, shown, analysisVars, aiVars, dbFile, lastRun, probe>>

ComboValues == QUERIES

RunQueryAny ==
    /\ phase = "running"
    /\ shown = "AnalysisFrame"
    /\ \E name \in ComboValues :
        IF dbFile = "warehouse"
        THEN \E rows \in QueryRows(name) :
                 \E pieZero \in (IF Archetype(name) = "pie" /\ Len(rows) > 0
                                     /\ SumSeq(ColY(rows)) = 0
                                  THEN PieZeroOutcomes ELSE {"drawn"}) :
                     RunQuery(name, rows, pieZero)
        ELSE RunQuery(name, <<>>, "drawn")

\* The AI frame's Light and Dark buttons (the active mode's is disabled):
\* set_mode_ai_from_button
ClickAiTheme(mode) ==
    /\ phase = "running"
    /\ shown = "AIFrame"
    /\ mode # current_ai_mode
    /\ \E fr \in {ThemeSettingsFrames(AnFrame, AiFrame)} :
          SetFrames(<<fr[1], SetModeAi(fr[2], mode, fr[1].light, fr[1].dark, FALSE)>>)
    /\ UNCHANGED <<phase, shown, status, status_ai, storeVars, lastRun, probe>>

\* The "Run Prediction" button of the AI frame, for the texts of the two spinboxes
RunPrediction(months_text, degree_text, rows) ==
    /\ phase = "running"
    /\ shown = "AIFrame"
    /\ openConns < MaxOpen
    /\ \E fr \in {ThemeSettingsFrames(AnFrame, AiFrame)} :
       \E f \in {EnsureCanvasAndApplyTheme(fr[2], fr[1].mode, fr[1].light, fr[1].dark)} :
       \E r \in {RunPredictionResult(f.ax, fr[1].mode, fr[1].light, fr[1].dark, dbFile,
                                     openConns, months_text, degree_text, rows)} :
          /\ SetFrames(<<fr[1], [f EXCEPT !.ax = r.ax]>>)
          /\ status_ai' = r.status
          /\ dbFile' = r.db
          /\ openConns' = r.conns
          /\ lastRun' = r.run
    /\ UNCHANGED <<phase, shown, status, probe>>

\* The texts the two spinboxes can hold (their entry is editable): the ends of the
\* two ranges, their neighbours outside, and texts that are no integers
MonthTexts == {"1", "36", "0", "37", "six"}
DegreeTexts == {"1", "3", "5", "0", "6", "2.5"}

\* The requests: every pair of accepted texts, each rejected text next to an accepted
\* one, and two pairs of rejected texts
Requests ==
    {rq \in MonthTexts \X DegreeTexts :
        \/ RequestStatus(rq[1], rq[2]) = ""
        \/ rq[1] = "36" \/ rq[2] = "3"
        \/ rq \in {<<"0", "6">>, <<"six", "2.5">>}}

\* The y column of a history of n months: a straight line, or a zigzag
HistoryYs(n) == {[i \in 1..n |-> 10 + 2 * i], [i \in 1..n |-> (i * i) % 3]}

\* A history whose year column is NULL: every x is NULL
NullRows(ys) == [i \in 1..Len(ys) |-> [x |-> Null, y |-> ys[i]]]

\* The rows the monthly query can return when a forecast is requested; the dated
\* histories start in October, so that they and their forecasts cross a year's end
HistoryRows ==
    UNION {{MonthlyRows(9, ys) : ys \in HistoryYs(n)}
           \cup {NullRows([i \in 1..n |-> 10 + 2 * i])} : n \in 0..MaxHist}

RunPredictionAny ==
    /\ phase = "running"
    /\ shown = "AIFrame"
    /\ \E rq \in Requests :
        IF dbFile = "warehouse" /\ RequestStatus(rq[1], rq[2]) = ""
        THEN \E rows \in HistoryRows : RunPrediction(rq[1], rq[2], rows)
        ELSE RunPrediction(rq[1], rq[2], <<>>)

NextForecast ==
    \/ Startup
    \/ \E name \in Frames : ShowFrame(name)
    \/ \E mode \in Modes : ClickAiTheme(mode)
    \/ RunPredictionAny
    \/ Finalize

SpecForecast == Init /\ [][NextForecast]_vars

NextReport ==
    \/ Startup
    \/ \E name \in Frames : ShowFrame(name)
    \/ \E mode \in Modes : ClickTheme(mode)
    \/ RunQueryAny
    \/ \E db \in DbStates : StoreChanges(db)
    \/ Finalize

SpecReport == Init /\ [][NextReport]_vars

\* The "Run" button when the query returns at most one row
RunQueryBrief ==
    /\ phase = "running"
    /\ shown = "AnalysisFrame"
    /\ \E name \in ComboValues :
        IF dbFile = "warehouse"
        THEN \E rows \in {r \in QueryRows(name) : Len(r) <= 1} :
                 \E pieZero \in (IF Archetype(name) = "pie" /\ Len(rows) > 0
                                     /\ SumSeq(ColY(rows)) = 0
                                  THEN PieZeroOutcomes ELSE {"drawn"}) :
                     RunQuery(name, rows, pieZero)
        ELSE RunQuery(name, <<>>, "drawn")

\* The "Run Prediction" button when the history is empty or of the greatest length
RunPredictionBrief ==
    /\ phase = "running"
    /\ shown = "AIFrame"
    /\ \E rq \in Requests :
        IF dbFile = "warehouse" /\ RequestStatus(rq[1], rq[2]) = ""
        THEN \E rows \in {r \in HistoryRows : Len(r) \in {0, MaxHist}} :
                 RunPrediction(rq[1], rq[2], rows)
        ELSE RunPrediction(rq[1], rq[2], <<>>)

\* Both frames' runs in one session, over a store that nothing else touches
NextRuns ==
    \/ Startup
    \/ \E name \in Frames : ShowFrame(name)
    \/ RunQueryBrief
    \/ RunPredictionBrief
    \/ Finalize

SpecRuns == Init /\ [][NextRuns]_vars

\* Histories on a straight line, y_i = a + b i, dated from January of the first year
LinearYs ==
    {[i \in 1..n |-> a + b * (i - 1)] : a \in {0, 100}, b \in {-3, 0, 20}, n \in 2..MaxHist}

\* The "Run Prediction" button with the degree spinbox at 1 and a history on a line
RunPredictionLinear ==
    /\ phase = "running"
    /\ shown = "AIFrame"
    /\ \E months_text \in {"1", "2", "36"} :
        IF dbFile = "warehouse"
        THEN \E ys \in LinearYs : RunPrediction(months_text, "1", MonthlyRows(0, ys))
        ELSE RunPrediction(months_text, "1", <<>>)

NextLinear ==
    \/ Startup
    \/ \E name \in Frames : ShowFrame(name)
    \/ RunPredictionLinear
    \/ Finalize

SpecLinear == Init /\ [][NextLinear]_vars

\* The "Run" button when the combobox holds no name, or a name that is no key of
\* QUERIES (its value set from code: the read-only widget takes none from the user)
OtherSelections == {"", "Orders by Region"}

RunQueryOther ==
    /\ phase = "running"
    /\ shown = "AnalysisFrame"
    /\ \E name \in OtherSelections : RunQuery(name, <<>>, "drawn")

NextSelect ==
    \/ Startup
    \/ \E name \in Frames : ShowFrame(name)
    \/ RunQueryBrief
    \/ RunQueryOther
    \/ \E db \in DbStates : StoreChanges(db)
    \/ Finalize

SpecSelect == Init /\ [][NextSelect]_vars

\* The "Run Prediction" button with the spinboxes at their initial texts
RunPredictionDefault ==
    /\ phase = "running"
    /\ shown = "AIFrame"
    /\ IF dbFile = "warehouse"
       THEN \E rows \in {r \in HistoryRows : Len(r) \in {0, MaxHist}} :
                RunPrediction("6", "2", rows)
       ELSE RunPrediction("6", "2", <<>>)

\* The theme buttons of both frames
NextTheme ==
    \/ Startup
    \/ \E name \in Frames : ShowFrame(name)
    \/ \E mode \in Modes : ClickTheme(mode)
    \/ \E mode \in Modes : ClickAiTheme(mode)
    \/ RunPredictionDefault
    \/ Finalize

SpecTheme == Init /\ [][NextTheme]_vars

-----------------------------------------------------------------------------
(* The archetype dispatch of run_query as a function of the report name, applied to
   names beyond the four of the catalog *)

NameWords ==
    {"Distribution", "Categories", "State", "Revenue", "Orders", "distribution", "Top"}

ReportNames ==
    QUERIES \cup NameWords \cup {w1 \o " by " \o w2 : w1, w2 \in NameWords}

InitClassify ==
    /\ InitApp
    /\ probe \in {[fn |-> "pending", name |-> name, result |-> ""] : name \in ReportNames}

\* The if / elif / else on the selected name
Classify ==
    /\ probe.fn = "pending"
    /\ probe' = [probe EXCEPT !.fn = "archetype", !.result = Archetype(probe.name)]
    /\ UNCHANGED <<phase, shown, analysisVars, aiVars, storeVars, lastRun>>

NextClassify == Classify

SpecClassify == InitClassify /\ [][NextClassify]_vars

-----------------------------------------------------------------------------
(* The whole application *)

Next ==
    \/ Startup
    \/ \E name \in Frames : ShowFrame(name)
    \/ \E mode \in Modes : ClickTheme(mode)
    \/ \E mode \in Modes : ClickAiTheme(mode)
    \/ RunQueryAny
    \/ RunPredictionAny
    \/ \E db \in DbStates : StoreChanges(db)
    \/ Finalize

Spec == Init /\ [][Next]_vars

-----------------------------------------------------------------------------
(* Properties *)

\* C1: the archetype of a report name is Pie when the name contains "Distribution",
\* otherwise CategoricalBar when it contains "Categories" or "State", otherwise
\* TimeLine; a name matching several patterns is Pie, and the four built-in names
\* map to Line, Bar, Bar and Pie.
C1_ArchetypePrecedence ==
    probe.fn = "archetype" =>
        /\ Contains(probe.name, "Distribution") => probe.result = "pie"
        /\ ~Contains(probe.name, "Distribution")
              /\ (Contains(probe.name, "Categories") \/ Contains(probe.name, "State"))
           => probe.result = "bar"
        /\ ~Contains(probe.name, "Distribution") /\ ~Contains(probe.name, "Categories")
              /\ ~Contains(probe.name, "State")
           => probe.result = "line"
        /\ probe.name = "Monthly Revenue" => probe.result = "line"
        /\ probe.name = "Top 10 Categories by Revenue" => probe.result = "bar"
        /\ probe.name = "Orders Count by State" => probe.result = "bar"
        /\ probe.name = "Payment Type Distribution" => probe.result = "pie"

C1_Witness ==
    /\ probe.fn = "archetype"
    /\ probe.name = "State by Distribution"
    /\ probe.result = "pie"

\* C2: every store connection a run opens is closed before the run returns, on every
\* exit path; after any sequence of runs no connection remains open.
C2_ConnectionsClosed ==
    /\ openConns = 0
    /\ lastRun.op # "none" /\ Len(lastRun.events) > 0
       => lastRun.events[Len(lastRun.events)] = "close"

\* The request of the last run: integers, horizon in 1..36, degree in 1..5
LastHorizon == ParseInt(lastRun.months)
LastDegree == ParseInt(lastRun.degree)
LastRequestValid ==
    /\ LastHorizon.ok /\ LastHorizon.val \in 1..36
    /\ LastDegree.ok /\ LastDegree.val \in 1..5

\* What the forecast chart plots: the series, the ticks and the text
PlottedData(a) ==
    <<a.artists, a.text, a.hist_idx, a.hist_y, a.fit_idx, a.fit_y, a.pred_idx, a.pred_y,
      a.xticks, a.xticklabels, a.title>>

\* C3: run_prediction rejects a request whose horizon is outside 1..36, whose degree
\* is outside 1..5 or whose inputs are no integers with an invalid-request status,
\* opening no connection, executing no query and leaving the plotted data unchanged.
\* (A step is a run of run_prediction when it is a RunPrediction step for the inputs
\* its record names.)
C3_InvalidRequestRejected ==
    [][(lastRun'.op = "run_prediction" /\ ~LastRequestValid'
          /\ RunPrediction(lastRun'.months, lastRun'.degree, lastRun'.rows))
        => /\ lastRun'.outcome = "invalid_request"
           /\ status_ai' \in {"Err: Invalid number.", "Err: Months 1-36.",
                              "Err: Degree 1-5."}
           /\ lastRun'.events = <<>>
           /\ openConns' = openConns
           /\ dbFile' = dbFile
           /\ PlottedData(ax_ai') = PlottedData(ax_ai)]_vars

C3_Witness ==
    /\ lastRun.op = "run_prediction"
    /\ lastRun.degree = "6"
    /\ lastRun.months = "36"
    /\ lastRun.outcome = "invalid_request"
    /\ ax_ai.artists = "forecast"
    /\ dbFile = "warehouse"

\* The last run was a forecast with a valid request whose history was read
HistoryRead ==
    /\ lastRun.op = "run_prediction"
    /\ LastRequestValid
    /\ lastRun.events = <<"connect", "pragma", "query", "close">>

\* C4: for a valid request of degree d and a history of length n, run_prediction fits
\* and plots a forecast if and only if n >= d + 1; when n < d + 1 it reports
\* insufficient data with a message naming d + 1, fits nothing and shows the
\* "Not enough data." placeholder.
C4_FitsIffEnoughPoints ==
    HistoryRead =>
        IF Len(lastRun.rows) >= LastDegree.val + 1
        THEN /\ lastRun.outcome = "success"
             /\ status_ai = "Prediction complete."
             /\ ax_ai.artists = "forecast"
             /\ Len(ax_ai.fit_y) = Len(lastRun.rows)
        ELSE /\ lastRun.outcome = "insufficient_data"
             /\ Contains(status_ai, ">= " \o ToString(LastDegree.val + 1) \o " data points")
             /\ ax_ai.artists = "text"
             /\ ax_ai.text = "Not enough data."
             /\ ax_ai.fit_y = <<>> /\ ax_ai.pred_y = <<>>

C4_Witness ==
    /\ HistoryRead
    /\ lastRun.degree = "3"
    /\ Len(lastRun.rows) = 4
    /\ ax_ai.artists = "forecast"

\* C5: on a successful forecast with history length n and horizon h, the historical
\* points have the indices 0..n-1 in series order, the fitted series has n points
\* at 0..n-1, and the predicted series has h points at n..n+h-1.
C5_IndicesContiguous ==
    lastRun.op = "run_prediction" /\ lastRun.outcome = "success" =>
        LET n == Len(lastRun.rows)
            h == LastHorizon.val
        IN  /\ ax_ai.hist_idx = [i \in 1..n |-> i - 1]
            /\ ax_ai.hist_y = [i \in 1..n |-> lastRun.rows[i].y]
            /\ ax_ai.fit_idx = [i \in 1..n |-> i - 1]
            /\ Len(ax_ai.fit_y) = n
            /\ ax_ai.pred_idx = [k \in 1..h |-> n + k - 1]
            /\ Len(ax_ai.pred_y) = h

C5_Witness ==
    /\ lastRun.op = "run_prediction" /\ lastRun.outcome = "success"
    /\ Len(lastRun.rows) = 4
    /\ lastRun.months = "36"
    /\ ax_ai.pred_idx[1] = 4 /\ ax_ai.pred_idx[36] = 39

\* A well-formed YYYY-MM token: four digits, a dash, a month 01..12
IsYearMonth(x) ==
    /\ x # Null /\ Len(x) = 7 /\ SubSeq(x, 5, 5) = "-"
    /\ AllDigits(SubSeq(x, 1, 4)) /\ AllDigits(SubSeq(x, 6, 7))
    /\ Decimal(SubSeq(x, 6, 7)) \in 1..12

\* The calendar month after the YYYY-MM token x: month 12 is followed by month 01
\* of the next year
NextMonth(x) ==
    IF SubSeq(x, 6, 7) = "12"
    THEN ToString(Decimal(SubSeq(x, 1, 4)) + 1) \o "-01"
    ELSE SubSeq(x, 1, 5) \o Fmt02(Decimal(SubSeq(x, 6, 7)) + 1)

\* C6: label generation yields exactly h labels and never fails the forecast: when
\* the last historical x-label is a YYYY-MM token the labels are the next h
\* consecutive calendar months, otherwise they are "P1".."Ph" and the forecast
\* completes with the same predicted values.
C6_FutureLabels ==
    HistoryRead /\ Len(lastRun.rows) >= LastDegree.val + 1 =>
        LET n == Len(lastRun.rows)
            h == LastHorizon.val
            last == lastRun.rows[n].x
            lbl == lastRun.future_labels
        IN  /\ lastRun.outcome = "success"
            /\ status_ai = "Prediction complete."
            /\ Len(lbl) = h
            /\ IF IsYearMonth(last)
               THEN /\ lbl[1] = NextMonth(last)
                    /\ \A k \in 1..(h - 1) : lbl[k + 1] = NextMonth(lbl[k])
               ELSE \A k \in 1..h : lbl[k] = "P" \o ToString(k)
            /\ ax_ai.pred_y
                 = Predict(PolynomialFit(LastDegree.val, ColY(lastRun.rows)),
                           [k \in 1..h |-> n + k - 1])
            /\ ax_ai.xticklabels[Len(ax_ai.xticklabels)] \in {lbl[k] : k \in 1..h}

C6_Witness ==
    /\ HistoryRead /\ lastRun.outcome = "success"
    /\ Len(lastRun.rows) = 3
    /\ lastRun.rows[3].x = "2023-12"
    /\ lastRun.months = "36"
    /\ lastRun.future_labels[1] = "2024-01"
    /\ lastRun.future_labels[13] = "2025-01"
    /\ lastRun.future_labels[36] = "2026-12"

\* The last run was a report of the Pie archetype whose query returned its rows
PieRead ==
    /\ lastRun.op = "run_query"
    /\ Contains(lastRun.name, "Distribution")
    /\ lastRun.events = <<"connect", "pragma", "query", "close">>

\* C7: for a Pie report whose y values sum to a positive value exactly one wedge is
\* exploded, the wedge of the maximum y, the first of them in series order when
\* several share the maximum; every other wedge has offset 0.
C7_ExplodeFirstMaximum ==
    PieRead /\ SumSeq(ColY(lastRun.rows)) > 0 =>
        LET ys == ColY(lastRun.rows)
            exploded == {i \in 1..Len(ax.explode) : ax.explode[i] # 0}
        IN  /\ ax.artists = "pie"
            /\ Len(ax.explode) = Len(ys)
            /\ Cardinality(exploded) = 1
            /\ \A i \in exploded :
                  /\ \A j \in 1..Len(ys) : ys[j] <= ys[i]
                  /\ \A j \in 1..(i - 1) : ys[j] < ys[i]

C7_Witness ==
    /\ PieRead
    /\ ColY(lastRun.rows) = <<1, 1, 0>>
    /\ ax.explode = <<1, 0, 0>>

\* C8: for a Pie report an empty series and a non-empty series whose y values are
\* all zero are both rendered as the centered "no data" placeholder, never as a
\* wedge set.
C8_DegeneratePiePlaceholder ==
    PieRead /\ SumSeq(ColY(lastRun.rows)) = 0 =>
        /\ ax.artists = "text"
        /\ ax.text = "No data available."

\* The last run was a report of the TimeLine archetype whose query returned rows
LineRead ==
    /\ lastRun.op = "run_query"
    /\ ~Contains(lastRun.name, "Distribution") /\ ~Contains(lastRun.name, "Categories")
    /\ ~Contains(lastRun.name, "State")
    /\ lastRun.events = <<"connect", "pragma", "query", "close">>
    /\ Len(lastRun.rows) >= 1

\* C9: for a TimeLine report with a series of length L >= 1 the displayed tick
\* indices are the multiples of stride = max(1, L // 12) below L, each labelled
\* with the series x value at that index, and there are ceil(L / stride) of them.
C9_LineTickThinning ==
    LineRead =>
        LET L == Len(lastRun.rows)
            stride == IF L \div 12 >= 1 THEN L \div 12 ELSE 1
        IN  /\ ax.artists = "line"
            /\ \A k \in 1..Len(ax.xticks) : ax.xticks[k] = (k - 1) * stride
            /\ {ax.xticks[k] : k \in 1..Len(ax.xticks)}
                 = {i \in 0..(L - 1) : i % stride = 0}
            /\ Len(ax.xticklabels) = Len(ax.xticks)
            /\ \A k \in 1..Len(ax.xticks) :
                  ax.xticklabels[k] = lastRun.rows[ax.xticks[k] + 1].x
            /\ Len(ax.xticks) = (L + stride - 1) \div stride

C9_Witness ==
    /\ LineRead
    /\ Len(lastRun.rows) = 25
    /\ ax.xticks[13] = 24
    /\ ax.xticklabels[13] = "2025-01"

\* C10: each render starts from cleared axes with aspect 'auto' and grid off, so
\* equal-aspect mode is in effect at the end of a run only if that run rendered a
\* Pie; a Bar or Line render after a Pie render inherits neither the equal aspect
\* nor any artist of the previous chart.
C10_EqualAspectOnlyAfterPie ==
    lastRun.op = "run_query" =>
        /\ ax.aspect = "equal"
           => Contains(lastRun.name, "Distribution") /\ ax.artists = "pie"
                /\ ax.x = ColX(lastRun.rows)
        /\ lastRun.outcome = "success" /\ ~Contains(lastRun.name, "Distribution")
           => ax.aspect = "auto" /\ ax.explode = <<>> /\ ax.artists \in {"bar", "line"}
                /\ ax.x = ColX(lastRun.rows) /\ ax.y = ColY(lastRun.rows)

\* The last run was a report whose series is empty, or failed to load (the store
\* could not be opened, or the query raised)
ReportWithoutSeries ==
    /\ lastRun.op = "run_query"
    /\ \/ lastRun.outcome = "empty"
       \/ lastRun.outcome = "db_error"
       \/ lastRun.outcome = "error" /\ "query_failed" \in {lastRun.events[i] : i \in 1..Len(lastRun.events)}

\* C11: when a report run yields an empty result or a failed series the chart shows
\* the "no data" state at the end of the run and the status signals the outcome;
\* after a failed run the chart never keeps the data of an earlier report.
C11_FailedRunShowsNoData ==
    ReportWithoutSeries =>
        /\ ax.artists \notin {"pie", "bar", "line"}
        /\ ax.x = <<>> /\ ax.y = <<>>
        /\ lastRun.outcome = "empty" => ax.artists = "text" /\ ax.text = "No data available."
        /\ ~Contains(status, "Successfully displayed")

\* The step is a run of run_query, for the name and the rows its record names
RunQueryStep ==
    /\ lastRun'.op = "run_query"
    /\ \E pieZero \in (IF lastRun'.outcome = "error" THEN PieZeroOutcomes ELSE {"drawn"}) :
          RunQuery(lastRun'.name, lastRun'.rows, pieZero)

\* C13: a report run reports three distinguishable outcomes for three causes: zero
\* rows give the empty-result outcome, not an error; a failing query gives a
\* query-error outcome carrying the underlying message; a missing or unreachable
\* store file gives a connection-error outcome distinct from the query error.
C13_ThreeOutcomes ==
    [][RunQueryStep =>
        /\ dbFile = "warehouse" /\ lastRun'.rows = <<>>
           => lastRun'.outcome = "empty" /\ status' = "No data found for: " \o lastRun'.name
        /\ dbFile = "empty"
           => lastRun'.outcome = "error" /\ Contains(status', "no such table")
        /\ dbFile \in {"absent", "unopenable"}
           => lastRun'.outcome = "db_error" /\ Contains(status', "Database error")
                /\ ~Contains(status', "no such table")]_vars

\* C14: no run changes the warehouse store: the connection is put in read-only mode
\* before the report query is executed, and the store's contents and existence
\* are the same after a run as before, also when the file is absent at the run.
C14_StoreUnchanged ==
    [][RunQueryStep =>
        /\ dbFile' = dbFile
        /\ \A i \in 1..Len(lastRun'.events) :
              lastRun'.events[i] \in {"query", "query_failed"}
              => i > 1 /\ lastRun'.events[i - 1] = "pragma"]_vars

\* The colour table of the mode that is active
ActiveTheme == IF current_mode = "light" THEN LightColors ELSE DarkColors

\* The step is a run of run_query that rendered a chart or the empty-result text:
\* such a run leaves the frame shown, the mode, the file and the open connections as
\* they are, and each other event of the analysis frame changes one of them
RenderStep ==
    /\ lastRun'.op = "run_query"
    /\ lastRun'.outcome \in {"success", "empty"}
    /\ UNCHANGED <<phase, shown, current_mode, dbFile, openConns>>

\* C15: every report render takes its theme-dependent choices (colormap, line accent
\* colour, wedge edge colour, text colour, plot background) from the mode active at
\* the time of the run, never from a previous run.
C15_ColoursFromActiveMode ==
    [][RenderStep =>
        /\ ax'.facecolor = ActiveTheme.plot_bg
        /\ ax'.figface = ActiveTheme.bg
        /\ ax'.fg = ActiveTheme.fg
        /\ lastRun'.outcome = "empty" => ax'.text_color = ActiveTheme.fg
        /\ lastRun'.outcome = "success"
           => /\ ax'.cmap = (IF current_mode = "light" THEN "viridis" ELSE "plasma")
              /\ ax'.artists = "line" => ax'.line_color = ActiveTheme.accent
              /\ ax'.artists = "pie"
                 => ax'.edge_color = ActiveTheme.bg /\ ax'.text_color = ActiveTheme.fg]_vars

C15_Witness ==
    /\ lastRun.op = "run_query" /\ lastRun.outcome = "success"
    /\ current_mode = "dark"
    /\ ax.artists = "line"
    /\ ax.cmap = "plasma"
    /\ ax.line_color = "#4db8ff"
    /\ ax.facecolor = "#383838"


StartsWith(s, p) == Len(s) >= Len(p) /\ SubSeq(s, 1, Len(p)) = p

\* The final messages of run_query, by outcome
QueryMessageOf(outcome, s, name) ==
    CASE outcome = "no_selection" -> s = "Please select a report."
      [] outcome = "success" -> s = "Successfully displayed: " \o name
      [] outcome = "empty" -> s = "No data found for: " \o name
      [] outcome = "not_found" -> s = "Error: Report query '" \o name \o "' not found."
      [] outcome = "db_error" -> StartsWith(s, "Database error: ")
      [] outcome = "error" -> StartsWith(s, "An unexpected error occurred: ")
      [] OTHER -> FALSE

\* The final messages of run_prediction, by outcome
PredictionMessageOf(outcome, s) ==
    CASE outcome = "invalid_request" ->
             s \in {"Err: Months 1-36.", "Err: Degree 1-5.", "Err: Invalid number."}
      [] outcome = "insufficient_data" ->
             StartsWith(s, "Err: Need >= ") /\ Contains(s, " data points for deg ")
      [] outcome = "success" -> s = "Prediction complete."
      [] outcome = "db_error" -> StartsWith(s, "DB err: ")
      [] outcome = "error" -> StartsWith(s, "Pred err: ")
      [] OTHER -> FALSE

\* C12: every run of run_query and of run_prediction ends in one of its final
\* outcomes with the status line of its frame at the message of that outcome, never at
\* the transient "Running" or "Processing" message; the status line of the other
\* frame is the one its own last run left, or the initial one
C12_RunsEndInFinalOutcome ==
    /\ lastRun.op = "run_query" => QueryMessageOf(lastRun.outcome, status, lastRun.name)
    /\ lastRun.op = "run_prediction" => PredictionMessageOf(lastRun.outcome, status_ai)
    /\ ~StartsWith(status, "Running") /\ ~StartsWith(status_ai, "Processing")
    /\ \/ status = "Ready. Select a report and click Run."
       \/ \E oc \in {"success", "empty", "db_error", "error"}, name \in QUERIES :
              QueryMessageOf(oc, status, name)
    /\ \/ status_ai = "Ready."
       \/ \E oc \in {"invalid_request", "insufficient_data", "success", "db_error",
                      "error"} : PredictionMessageOf(oc, status_ai)

\* Both runs failed on a store without tables, each with its own error message
C12_Witness ==
    /\ lastRun.op = "run_prediction" /\ lastRun.outcome = "error"
    /\ status_ai = UnexpectedPredictionError
    /\ status = UnexpectedQueryError
    /\ dbFile = "empty"

\* ys lies on a straight line and has at least two points
IsLine(ys) ==
    /\ Len(ys) >= 2
    /\ \A i \in 1..Len(ys) : ys[i] = ys[1] + (ys[2] - ys[1]) * (i - 1)

\* The last run was a successful forecast of degree 1 on a history on a line
LinearForecastDone ==
    /\ lastRun.op = "run_prediction"
    /\ lastRun.outcome = "success"
    /\ lastRun.degree = "1"
    /\ IsLine(ColY(lastRun.rows))

\* C16: a forecast of degree 1 on a history y_i = a + b i, i = 0..n-1, n >= 2, plots
\* a + b i at the fitted indices 0..n-1 and at the predicted indices n..n+h-1; the
\* history 2023-01: 100, 2023-02: 120, 2023-03: 140 with horizon 2 gives the fitted
\* values 100, 120, 140, the predicted values 160, 180 and the labels 2023-04, 2023-05.
C16_LinearFitReproducesLine ==
    /\ LinearForecastDone =>
          LET ys == ColY(lastRun.rows)
              n == Len(ys)
              h == LastHorizon.val
              line(i) == <<ys[1] + (ys[2] - ys[1]) * i, 1>>
          IN  /\ ax_ai.fit_idx = [i \in 1..n |-> i - 1]
              /\ ax_ai.fit_y = [i \in 1..n |-> line(i - 1)]
              /\ ax_ai.pred_idx = [j \in 1..h |-> n + j - 1]
              /\ ax_ai.pred_y = [j \in 1..h |-> line(n + j - 1)]
    /\ (/\ LinearForecastDone
        /\ lastRun.rows = <<[x |-> "2023-01", y |-> 100], [x |-> "2023-02", y |-> 120],
                            [x |-> "2023-03", y |-> 140]>>
        /\ lastRun.months = "2")
       => /\ ax_ai.fit_y = <<(<<100, 1>>), (<<120, 1>>), (<<140, 1>>)>>
          /\ ax_ai.pred_y = <<(<<160, 1>>), (<<180, 1>>)>>
          /\ lastRun.future_labels = <<"2023-04", "2023-05">>

\* The forecast of the example was run
C16_Witness ==
    /\ LinearForecastDone
    /\ ColY(lastRun.rows) = <<100, 120, 140>>
    /\ lastRun.months = "2"
    /\ ax_ai.artists = "forecast"
    /\ ax_ai.pred_y = <<(<<160, 1>>), (<<180, 1>>)>>

\* The last run was a successful forecast
ForecastDone == lastRun.op = "run_prediction" /\ lastRun.outcome = "success"

\* C18: after a successful forecast on a history of n points with horizon h, the tick
\* indices are every stride-th element of 0..n+h-1, stride = max(1, (n+h) div 12); the
\* label at tick index i is the x of history point i when i < n and the (i-n+1)-th
\* future label when i >= n; the indices plotted and the labels are n+h each.
C18_TicksAligned ==
    ForecastDone =>
        LET n == Len(lastRun.rows)
            h == LastHorizon.val
            stride == IF (n + h) \div 12 > 1 THEN (n + h) \div 12 ELSE 1
            shown_count == (n + h + stride - 1) \div stride
        IN  /\ Len(ax_ai.hist_idx) + Len(ax_ai.pred_idx) = n + h
            /\ Len(lastRun.rows) + Len(lastRun.future_labels) = n + h
            /\ ax_ai.xticks = [k \in 1..shown_count |-> (k - 1) * stride]
            /\ Len(ax_ai.xticklabels) = Len(ax_ai.xticks)
            /\ \A k \in 1..Len(ax_ai.xticks) :
                  LET i == ax_ai.xticks[k]
                  IN  ax_ai.xticklabels[k] =
                        (IF i < n THEN lastRun.rows[i + 1].x
                         ELSE lastRun.future_labels[i - n + 1])

\* A forecast whose ticks are thinned: the last history label and a future label are
\* both among the labels shown
C18_Witness ==
    /\ ForecastDone
    /\ Len(lastRun.rows) = 4 /\ lastRun.months = "36"
    /\ ax_ai.xticks[2] = 3 /\ ax_ai.xticklabels[2] = "2024-01"
    /\ ax_ai.xticklabels[3] = "2024-04"
    /\ Len(ax_ai.xticks) = 14

\* C17: a run for a name that is no key of QUERIES ends as not found, with the status
\* "Error: Report query '<name>' not found.", and leaves the chart as it was; a run
\* with an empty selection ends with "Please select a report." without a call to the
\* store, and leaves the chart as it was.
C17_UnknownNameNotFound ==
    [][RunQueryStep =>
        /\ lastRun'.name = ""
           => /\ status' = "Please select a report."
              /\ lastRun'.events = <<>>
              /\ UNCHANGED <<dbFile, openConns>>
              /\ ax' = ax
        /\ lastRun'.name # "" /\ lastRun'.name \notin QUERIES
           => /\ lastRun'.outcome = "not_found"
              /\ status' = "Error: Report query '" \o lastRun'.name \o "' not found."
              /\ ax' = ax]_vars

\* C19: start-up leaves the AI frame without a plot canvas; the canvas is created only
\* by a step that changes the theme of a frame or runs a prediction.
C19_AiCanvasDeferred ==
    [][/\ (phase = "constructed" /\ phase' = "running") => ~canvas_ai'
       /\ (~canvas_ai /\ canvas_ai')
          => \/ current_mode' # current_mode
             \/ current_ai_mode' # current_ai_mode
             \/ shown = "AIFrame" /\ lastRun'.op = "run_prediction"]_vars

\* C20: once the application runs, the mode of the AI frame is the mode of the
\* analysis frame.
C20_ModesAgree == phase = "running" => current_ai_mode = current_mode

\* The colour table of the mode the AI frame displays
AiTheme == IF current_ai_mode = "light" THEN LightColors ELSE DarkColors

\* The step is a run of run_prediction that drew a forecast or the "Not enough data."
\* text: such a run leaves the frame shown, the mode of the AI frame, the file and the
\* open connections as they are, and each other event of the AI frame changes one of
\* them
ForecastDrawStep ==
    /\ shown = "AIFrame"
    /\ lastRun'.op = "run_prediction"
    /\ lastRun'.outcome \in {"success", "insufficient_data"}
    /\ UNCHANGED <<phase, shown, current_ai_mode, dbFile, openConns>>

\* C21: a run of run_prediction colours what it draws with the mode the AI frame
\* displays (current_ai_mode, the mode last selected in that frame): the backgrounds,
\* the foreground, the accent colour of the historical line and the colour of the
\* text.
C21_ForecastThemedWithAiMode ==
    [][ForecastDrawStep =>
        /\ ax_ai'.facecolor = AiTheme.plot_bg
        /\ ax_ai'.figface = AiTheme.bg
        /\ ax_ai'.fg = AiTheme.fg
        /\ lastRun'.outcome = "success" => ax_ai'.hist_color = AiTheme.accent
        /\ lastRun'.outcome = "insufficient_data" => ax_ai'.text_color = AiTheme.fg]_vars
====
